---- MODULE Spec2Model ----
(***************************************************************************)
(* cargo-kelvin: `cargo kelvin submit`.  One run of main(): locate the     *)
(* workspace root, walk it and build an in-memory ZIP archive, POST the    *)
(* archive to Kelvin, interpret the response, optionally open a browser.   *)
(*                                                                         *)
(* File names are sequences of one-character strings so that               *)
(* Path::extension and Path::starts_with are computed, not assumed.        *)
(* A file's content is identified by the file's path and its length; the   *)
(* bytes stored in a ZIP entry are "the first len bytes of file src".      *)
(***************************************************************************)
EXTENDS Integers, Sequences, FiniteSets, TLC

\* ---------------------------------------------------------------- bounds
\* Largest number of entries below the workspace root in a modelled tree.
MaxEntries == 3
\* Small files have a length of 0 .. SmallLen bytes.
SmallLen == 1

\* ------------------------------------------------------ program constants
\* .max_filesize(Some(1024 * 1024))
MaxFileSize == 1024 * 1024
\* StatusCode::OK
StatusOK == 200

\* ------------------------------------------------------------ file names
c_Cargo_toml == <<"C","a","r","g","o",".","t","o","m","l">>
c_src        == <<"s","r","c">>
c_main_rs    == <<"m","a","i","n",".","r","s">>
c_target     == <<"t","a","r","g","e","t">>
c_out_rs     == <<"o","u","t",".","r","s">>
c_targets    == <<"t","a","r","g","e","t","s">>
c_x_rs       == <<"x",".","r","s">>
c_notes_jpg  == <<"n","o","t","e","s",".","j","p","g">>
c_README_MD  == <<"R","E","A","D","M","E",".","M","D">>
c_dot_txt    == <<".","t","x","t">>
c_Makefile   == <<"M","a","k","e","f","i","l","e">>
c_docs_md    == <<"d","o","c","s",".","m","d">>
c_link_rs    == <<"l","i","n","k",".","r","s">>
c_skip_rs    == <<"s","k","i","p",".","r","s">>
c_locked     == <<"l","o","c","k","e","d">>

\* The candidate directory entries of a workspace.  `sizes` are the lengths
\* the file may have, `ignored` says that a .gitignore pattern matches it,
\* `denied` that the directory cannot be listed.
Cand(path, kind, sizes, ignored, denied) ==
    [path |-> path, kind |-> kind, sizes |-> sizes,
     ignored |-> ignored, denied |-> denied]

Universe ==
    { Cand(<<c_Cargo_toml>>,        "file",  0..SmallLen, FALSE, FALSE),
      Cand(<<c_src>>,               "dir",   {0}, FALSE, FALSE),
      Cand(<<c_src, c_main_rs>>,    "file",  {SmallLen, MaxFileSize, MaxFileSize + 1}, FALSE, FALSE),
      Cand(<<c_target>>,            "dir",   {0}, FALSE, FALSE),
      Cand(<<c_target, c_out_rs>>,  "file",  {1}, FALSE, FALSE),
      Cand(<<c_targets>>,           "dir",   {0}, FALSE, FALSE),
      Cand(<<c_targets, c_x_rs>>,   "file",  {1}, FALSE, FALSE),
      Cand(<<c_notes_jpg>>,         "file",  {1, MaxFileSize + 1}, FALSE, FALSE),
      Cand(<<c_README_MD>>,         "file",  {1}, FALSE, FALSE),
      Cand(<<c_dot_txt>>,           "file",  {1}, FALSE, FALSE),
      Cand(<<c_Makefile>>,          "file",  {1}, FALSE, FALSE),
      Cand(<<c_docs_md>>,           "dir",   {0}, FALSE, FALSE),
      Cand(<<c_link_rs>>,           "other", {0}, FALSE, FALSE),
      Cand(<<c_skip_rs>>,           "file",  {1}, TRUE,  FALSE),
      Cand(<<c_locked>>,            "dir",   {0}, FALSE, TRUE) }

AllSizes == UNION { c.sizes : c \in Universe }

Parent(path) == SubSeq(path, 1, Len(path) - 1)

\* A directory entry as the traversal sees it.
Entry(c, size) ==
    [path |-> c.path, kind |-> c.kind, size |-> size,
     ignored |-> c.ignored, denied |-> c.denied]

\* The workspace root itself (the walker yields it at depth 0).
RootEntry ==
    [path |-> <<>>, kind |-> "dir", size |-> 0, ignored |-> FALSE, denied |-> FALSE]

\* The shapes of the modelled trees: parent-closed sets of candidates.
Shapes ==
    { S \in SUBSET Universe :
        /\ Cardinality(S) <= MaxEntries
        /\ \A c \in S : Len(c.path) > 1 =>
              \E d \in S : d.path = Parent(c.path) /\ d.kind = "dir" }

Trees ==
    UNION { { { Entry(c, f[c]) : c \in S } \cup {RootEntry} :
                f \in { g \in [S -> AllSizes] : \A c \in S : g[c] \in c.sizes } } :
            S \in Shapes }

\* ------------------------------------------------------------------ state
VARIABLES
    pc,          \* position in main(): "manifest", "walk", "send", "response", "exit"
    fs,          \* the workspace: set of directory entries
    no_open,     \* SubmitArgs.no_open
    debug_log,   \* the logger's filter lets debug lines through (RUST_LOG)
    visited,     \* paths the `for file in iter` loop has consumed
    errq,        \* directories whose listing error the walker has yet to yield
    zip,         \* ZipWriter: sequence of entries [name, src, len]
    file_count,  \* compress_workspace's counter
    result,      \* what write_file_to_zip did: set of [path, step, n]
    archive,     \* compress_workspace's return value: {} until finish() succeeds, then {entries}
    log,         \* log lines emitted, in order
    requests,    \* the HTTP requests sent, in order
    client,      \* Submission Client state: "Idle", "Sent", "Success", "Rejected"
    res,         \* the HTTP response: [status, body]
    opened,      \* URLs passed to open::that, in order
    exit_code,   \* -1 while running, 0 for Ok(()), 1 for Err
    fatal        \* the context of the error main returned, "" if none

vars == <<pc, fs, no_open, debug_log, visited, errq, zip, file_count, result,
          archive, log, requests, client, res, opened, exit_code, fatal>>

\* ------------------------------------------------------------- responses
\* A response body: whether it can be read off the connection, whether it is
\* JSON at all, and the type and value found at submit.id, submit.url and
\* task.name ("int", "str" or "absent").
Body(readable, json, idt, id, urlt, url, namet, name) ==
    [readable |-> readable, json |-> json,
     id |-> [t |-> idt, n |-> id], url |-> [t |-> urlt, s |-> url],
     name |-> [t |-> namet, s |-> name]]

Url42 == "https://x/s/42"
Url7  == "https://x/s/7"

GoodBody42  == Body(TRUE, TRUE, "int", 42, "str", Url42, "str", "hw1")
GoodBody7   == Body(TRUE, TRUE, "int", 7, "str", Url7, "str", "hw2")
IdIsString  == Body(TRUE, TRUE, "str", 0, "str", Url42, "str", "hw1")
IdNegative  == Body(TRUE, TRUE, "int", -1, "str", Url42, "str", "hw1")
UrlMissing  == Body(TRUE, TRUE, "int", 42, "absent", "", "str", "hw1")
NotJson     == Body(TRUE, FALSE, "absent", 0, "absent", "", "absent", "")
Unreadable  == Body(FALSE, TRUE, "int", 42, "str", Url42, "str", "hw1")

Bodies == {GoodBody42, GoodBody7, IdIsString, IdNegative, UrlMissing, NotJson, Unreadable}

\* The responses the server may give.
Responses ==
    { [status |-> StatusOK, body |-> b] : b \in Bodies }
    \cup { [status |-> s, body |-> b] : s \in {403, 500}, b \in {GoodBody42, NotJson, Unreadable} }

NoResponse == [status |-> 0, body |-> NotJson]

Line(level, msg, path, num) == [level |-> level, msg |-> msg, path |-> path, num |-> num]

Init ==
    /\ pc = "manifest"
    /\ fs \in Trees
    /\ no_open \in BOOLEAN
    /\ debug_log \in BOOLEAN
    /\ visited = {}
    /\ errq = {}
    /\ zip = <<>>
    /\ file_count = 0
    /\ result = {}
    /\ archive = {}
    /\ log = <<>>
    /\ requests = <<>>
    /\ client = "Idle"
    /\ res = NoResponse
    /\ opened = <<>>
    /\ exit_code = -1
    /\ fatal = ""

\* `?` on an Err: main returns the error with its context.
Fail(ctx) ==
    /\ pc' = "exit"
    /\ exit_code' = 1
    /\ fatal' = ctx

\* ----------------------------------------------------- get_manifest_path
ManifestOk ==
    /\ pc = "manifest"
    /\ pc' = "walk"
    /\ UNCHANGED <<fs, no_open, debug_log, visited, errq, zip, file_count, result,
                   archive, log, requests, client, res, opened, exit_code, fatal>>

ManifestErr ==
    /\ pc = "manifest"
    /\ Fail("getting cargo metadata")
    /\ UNCHANGED <<fs, no_open, debug_log, visited, errq, zip, file_count, result,
                   archive, log, requests, client, res, opened>>

\* ------------------------------------------------------------ path helpers
\* manifest_path.parent(): the absolute path of the workspace root.
root_dir == << <<"w","s">> >>

\* DirEntry::path(): the walker yields paths below the root it was given.
AbsPath(entry) == root_dir \o entry.path

\* Mutant of starts_with: the paths are compared as strings, so that a base
\* component matches the beginning of a longer component.
starts_with_str(path, base) ==
    /\ Len(base) >= 1
    /\ Len(base) <= Len(path)
    /\ SubSeq(path, 1, Len(base) - 1) = SubSeq(base, 1, Len(base) - 1)
    /\ Len(base[Len(base)]) <= Len(path[Len(base)])
    /\ SubSeq(path[Len(base)], 1, Len(base[Len(base)])) = base[Len(base)]

\* Path::starts_with: whole components are compared.
starts_with(path, base) ==
    /\ Len(base) <= Len(path)
    /\ SubSeq(path, 1, Len(base)) = base

\* Path::strip_prefix: Ok(rest) if base is a prefix, Err otherwise (a set
\* with at most one element).
strip_prefix(path, base) ==
    IF starts_with(path, base)
    THEN { SubSeq(path, Len(base) + 1, Len(path)) }
    ELSE {}

\* Index of the last "." of a file name, 0 if there is none.
LastDot(name) ==
    LET dots == { i \in 1..Len(name) : name[i] = "." }
    IN  IF dots = {} THEN 0 ELSE CHOOSE i \in dots : \A j \in dots : j <= i

\* Path::extension: the part of the file name after its last ".", None (the
\* empty set) if the path has no file name, the name has no "." or only a
\* leading one.
extension(path) ==
    IF Len(path) = 0 THEN {}
    ELSE LET name == path[Len(path)]
             d    == LastDot(name)
         IN  IF d <= 1 THEN {} ELSE { SubSeq(name, d + 1, Len(name)) }

AllowedExt ==
    { <<"t","o","m","l">>, <<"l","o","c","k">>, <<"r","s">>, <<"m","d">>, <<"t","x","t">> }

\* Lower-case image of a letter of the file names above.
Lower(ch) ==
    CASE ch = "M" -> "m" [] ch = "D" -> "d" [] ch = "R" -> "r"
      [] ch = "E" -> "e" [] ch = "A" -> "a" [] ch = "C" -> "c"
      [] OTHER -> ch

LowerStr(s) == [i \in 1..Len(s) |-> Lower(s[i])]

\* Mutant of is_valid_path: the extension is compared ignoring case.
is_valid_path_nocase(entry) ==
    IF entry.kind = "dir" THEN TRUE
    ELSE /\ entry.kind = "file"
         /\ \E ext \in extension(AbsPath(entry)) : LowerStr(ext) \in AllowedExt

is_valid_path(entry) ==
    IF entry.kind = "dir" THEN TRUE
    ELSE /\ entry.kind = "file"
         /\ \E ext \in extension(AbsPath(entry)) : ext \in AllowedExt

\* Mutant of skip_filesize: a file of exactly the limit is skipped too.
skip_filesize_ge(entry) ==
    /\ entry.kind # "dir"
    /\ entry.size >= MaxFileSize

\* WalkBuilder::max_filesize: files (not directories) above the limit are
\* not yielded.
skip_filesize(entry) ==
    /\ entry.kind # "dir"
    /\ entry.size > MaxFileSize

\* What the configured walker leaves out below the root: ignore-file
\* matches, files over the size limit, entries the filter rejects.
skip_entry(entry) ==
    \/ entry.ignored
    \/ skip_filesize(entry)
    \/ ~is_valid_path(entry)

\* The entries the iterator yields: every ancestor was yielded and could be
\* descended into, and the entry itself is not skipped.  The root (depth 0)
\* is always yielded.
Yields(entry) ==
    \A k \in 1..Len(entry.path) :
        \E a \in fs :
            /\ a.path = SubSeq(entry.path, 1, k)
            /\ ~skip_entry(a)
            /\ k < Len(entry.path) => (a.kind = "dir" /\ ~a.denied)

\* The entries the iterator can yield next: parents come before children,
\* the order among siblings is the directory's.
Ready ==
    { e \in fs :
        /\ Yields(e)
        /\ e.path \notin visited
        /\ Len(e.path) > 0 => Parent(e.path) \in visited }

\* ------------------------------------------------------------- ZipWriter
\* start_file_from_path: a new, empty entry becomes the current one.
start_file_from_path(z, relative_path) ==
    Append(z, [name |-> relative_path, src |-> relative_path, len |-> 0])

\* std::fs::read: the whole content of the file.
fs_read(entry) == [src |-> entry.path, len |-> entry.size]

\* Write::write on the ZipWriter: the first n bytes of the buffer are added
\* to the current entry and Ok(n) is returned.
zip_write(z, bytes, n) ==
    [z EXCEPT ![Len(z)] = [name |-> z[Len(z)].name, src |-> bytes.src, len |-> @.len + n]]

\* The byte counts a single write call may accept of a buffer of len bytes:
\* all of it, or a part of it (Write::write may return Ok(n) with n < len).
Accepts(len) == { len } \cup { n \in { len \div 2 } : n >= 1 }

\* What the environment can make of one write_file_to_zip call: an error of
\* start_file_from_path, of fs::read, or of write (the ZipWriter keeping the
\* started entry, or dropping it), or success with n bytes accepted.
Outcomes(entry) ==
    { [step |-> s, n |-> 0] : s \in {"start_err", "read_err", "write_err", "write_abort"} }
    \cup { [step |-> "ok", n |-> n] : n \in Accepts(entry.size) }

\* write_file_to_zip: the new ZipWriter state and whether Ok(()) is returned.
write_file_to_zip(z, relative_path, entry, o) ==
    IF o.step = "start_err" THEN [zip |-> z, ok |-> FALSE]
    ELSE LET started == start_file_from_path(z, relative_path) IN
         IF o.step = "read_err" THEN [zip |-> started, ok |-> FALSE]
         ELSE IF o.step = "write_err" THEN [zip |-> started, ok |-> FALSE]
         ELSE IF o.step = "write_abort" THEN [zip |-> z, ok |-> FALSE]
         ELSE [zip |-> zip_write(started, fs_read(entry), o.n), ok |-> TRUE]

\* ---------------------------------------------------- compress_workspace
\* The `continue` conditions of the loop body.
Continues(entry) ==
    \/ ~is_valid_path(entry)
    \/ entry.kind = "dir"
    \/ AbsPath(entry) = root_dir
    \/ strip_prefix(AbsPath(entry), root_dir) = {}
    \/ \E rel \in strip_prefix(AbsPath(entry), root_dir) : starts_with(rel, <<c_target>>)

\* One iteration over an Ok(file) item that is passed over.
ForSkip ==
    /\ pc = "walk"
    /\ \E e \in Ready :
        /\ Continues(e)
        /\ visited' = visited \cup {e.path}
        /\ errq' = IF e.kind = "dir" /\ e.denied THEN errq \cup {e.path} ELSE errq
    /\ UNCHANGED <<pc, fs, no_open, debug_log, zip, file_count, result,
                   archive, log, requests, client, res, opened, exit_code, fatal>>

\* One iteration over an Ok(file) item that is written to the archive.
ForWrite ==
    /\ pc = "walk"
    /\ \E e \in Ready :
        /\ ~Continues(e)
        /\ \E rel \in strip_prefix(AbsPath(e), root_dir), o \in Outcomes(e) :
            LET w == write_file_to_zip(zip, rel, e, o) IN
            /\ zip' = w.zip
            /\ result' = result \cup {[path |-> e.path, step |-> o.step, n |-> o.n]}
            /\ IF w.ok
               THEN /\ file_count' = file_count + 1
                    /\ log' = log
               ELSE /\ file_count' = file_count
                    /\ log' = Append(log, Line("warn", "Cannot write file", AbsPath(e), 0))
        /\ visited' = visited \cup {e.path}
    /\ UNCHANGED <<pc, fs, no_open, debug_log, errq, archive, requests, client,
                   res, opened, exit_code, fatal>>

\* One iteration over an Err(error) item.
ForErr ==
    /\ pc = "walk"
    /\ \E p \in errq :
        /\ errq' = errq \ {p}
        /\ log' = Append(log, Line("warn", "Cannot include file", root_dir \o p, 0))
    /\ UNCHANGED <<pc, fs, no_open, debug_log, visited, zip, file_count, result,
                   archive, requests, client, res, opened, exit_code, fatal>>

LoopDone == pc = "walk" /\ Ready = {} /\ errq = {}

\* zip.finish() succeeds: the archive is returned and the count is logged.
FinishOk ==
    /\ LoopDone
    /\ archive' = {zip}
    /\ log' = Append(log, Line("info",
                               IF file_count = 1 THEN "Compressed file" ELSE "Compressed files",
                               <<>>, file_count))
    /\ pc' = "send"
    /\ UNCHANGED <<fs, no_open, debug_log, visited, errq, zip, file_count, result,
                   requests, client, res, opened, exit_code, fatal>>

\* Mutant of FinishErr: the error is recorded but the run goes on to submit
\* what was written so far.
FinishErrContinue ==
    /\ LoopDone
    /\ fatal' = "cannot create ZIP archive"
    /\ archive' = {zip}
    /\ pc' = "send"
    /\ UNCHANGED <<fs, no_open, debug_log, visited, errq, zip, file_count, result,
                   log, requests, client, res, opened, exit_code>>

\* zip.finish() fails: compress_workspace and main return the error.
FinishErr ==
    /\ LoopDone
    /\ Fail("cannot create ZIP archive")
    /\ UNCHANGED <<fs, no_open, debug_log, visited, errq, zip, file_count, result,
                   archive, log, requests, client, res, opened>>

\* ------------------------------------------------------ submission client
\* client.post(..).multipart(form).send() returns a response.
SendOk ==
    /\ pc = "send"
    /\ \E a \in archive : requests' = Append(requests, [part |-> "solution", file_name |-> "submit.zip", bytes |-> a])
    /\ client' = "Sent"
    /\ res' \in Responses
    /\ pc' = "response"
    /\ UNCHANGED <<fs, no_open, debug_log, visited, errq, zip, file_count, result,
                   archive, log, opened, exit_code, fatal>>

\* Mutant of SendErr: the request is sent again after a transport error.
SendErrRetry ==
    /\ pc = "send"
    /\ Len(requests) < 2
    /\ \E a \in archive : requests' = Append(requests, [part |-> "solution", file_name |-> "submit.zip", bytes |-> a])
    /\ client' = "Sent"
    /\ UNCHANGED <<pc, fs, no_open, debug_log, visited, errq, zip, file_count, result,
                   archive, log, res, opened, exit_code, fatal>>

\* send() fails (no response): main returns the error.
SendErr ==
    /\ pc = "send"
    /\ \E a \in archive : requests' = Append(requests, [part |-> "solution", file_name |-> "submit.zip", bytes |-> a])
    /\ client' = "Sent"
    /\ Fail("sending submit to Kelvin")
    /\ UNCHANGED <<fs, no_open, debug_log, visited, errq, zip, file_count, result,
                   archive, log, res, opened>>

\* Response::text: Ok(body text) or Err.
text(response) == response.body.readable

\* Response::json::<Response>(): the deserialized value, or Err (the empty
\* set) if the body cannot be read, is not JSON, or a field is missing or
\* has the wrong type (submit.id is a u64).
json(response) ==
    LET b == response.body IN
    IF /\ b.readable /\ b.json
       /\ b.id.t = "int" /\ b.id.n >= 0
       /\ b.url.t = "str"
       /\ b.name.t = "str"
    THEN { [submit |-> [id |-> b.id.n, url |-> b.url.s], task |-> [name |-> b.name.s]] }
    ELSE {}

\* Mutant of Rejected: a rejected submission makes main return an error.
RejectedFatal ==
    /\ pc = "response"
    /\ res.status # StatusOK
    /\ client' = "Rejected"
    /\ log' = Append(log, Line("error", "The submit was not successful", <<>>, res.status))
    /\ Fail("submit rejected")
    /\ UNCHANGED <<fs, no_open, debug_log, visited, errq, zip, file_count, result,
                   archive, requests, res, opened>>

\* The status is not 200 OK: log the status, and the body if debug lines
\* are enabled (log::debug! evaluates its arguments only then).
Rejected ==
    /\ pc = "response"
    /\ res.status # StatusOK
    /\ client' = "Rejected"
    /\ IF debug_log /\ ~text(res)
       THEN /\ log' = Append(log, Line("error", "The submit was not successful", <<>>, res.status))
            /\ Fail("getting content of HTTP response")
       ELSE /\ log' = IF debug_log
                      THEN log \o << Line("error", "The submit was not successful", <<>>, res.status),
                                     Line("debug", "Response content", <<>>, res.status) >>
                      ELSE Append(log, Line("error", "The submit was not successful", <<>>, res.status))
            /\ pc' = "exit"
            /\ exit_code' = 0
            /\ fatal' = fatal
    /\ UNCHANGED <<fs, no_open, debug_log, visited, errq, zip, file_count, result,
                   archive, requests, res, opened>>

\* The status is 200 OK but the body does not deserialize.
ParseErr ==
    /\ pc = "response"
    /\ res.status = StatusOK
    /\ json(res) = {}
    /\ Fail("deserializing response")
    /\ UNCHANGED <<fs, no_open, debug_log, visited, errq, zip, file_count, result,
                   archive, log, requests, client, res, opened>>

\* The two info lines of an accepted submission.
SuccessLines(response) ==
    << Line("info", "Created submit", <<>>, response.submit.id),
       Line("info", "You can find the submit at", <<>>, response.submit.id) >>

\* Mutant of Accepted: the no-open flag is not consulted.
AcceptedAlwaysOpen ==
    /\ pc = "response"
    /\ res.status = StatusOK
    /\ \E response \in json(res) :
        /\ client' = "Success"
        /\ log' = log \o SuccessLines(response)
        /\ opened' = Append(opened, response.submit.url)
    /\ pc' = "exit"
    /\ exit_code' = 0
    /\ fatal' = fatal
    /\ UNCHANGED <<fs, no_open, debug_log, visited, errq, zip, file_count, result,
                   archive, requests, res>>

\* 200 OK and a parsed body; the browser is not asked for, or opens.
Accepted ==
    /\ pc = "response"
    /\ res.status = StatusOK
    /\ \E response \in json(res) :
        /\ client' = "Success"
        /\ log' = log \o SuccessLines(response)
        /\ opened' = IF ~no_open THEN Append(opened, response.submit.url) ELSE opened
    /\ pc' = "exit"
    /\ exit_code' = 0
    /\ fatal' = fatal
    /\ UNCHANGED <<fs, no_open, debug_log, visited, errq, zip, file_count, result,
                   archive, requests, res>>

\* 200 OK and a parsed body; open::that is called and fails.
OpenErr ==
    /\ pc = "response"
    /\ res.status = StatusOK
    /\ ~no_open
    /\ \E response \in json(res) :
        /\ client' = "Success"
        /\ log' = log \o SuccessLines(response)
        /\ opened' = Append(opened, response.submit.url)
    /\ Fail("opening browser")
    /\ UNCHANGED <<fs, no_open, debug_log, visited, errq, zip, file_count, result,
                   archive, requests, res>>

Next ==
    \/ ManifestOk \/ ManifestErr
    \/ ForSkip \/ ForWrite \/ ForErr
    \/ FinishOk \/ FinishErr
    \/ SendOk \/ SendErr
    \/ Rejected \/ ParseErr \/ Accepted \/ OpenErr

Spec == Init /\ [][Next]_vars

\* ================================================================ properties
\* The traversal loop of compress_workspace has ended.
WalkOver == LoopDone \/ archive # {} \/ fatal = "cannot create ZIP archive"

\* The names of the entries of a ZipWriter or archive.
Names(z) == { z[i].name : i \in 1..Len(z) }

\* The paths handed to write_file_to_zip so far.
Handed == { r.path : r \in result }

\* A response body has the shape {submit: {id: u64, url: string}, task: {name: string}}.
WellFormed(b) ==
    /\ b.readable /\ b.json
    /\ b.id.t = "int" /\ b.id.n >= 0
    /\ b.url.t = "str" /\ b.name.t = "str"

\* A response with a status other than 200 OK has been handled.
RejectionHandled == pc = "exit" /\ res.status \notin {0, StatusOK}

ErrorLineWithStatus ==
    \E i \in 1..Len(log) : log[i].level = "error" /\ log[i].num = res.status

\* C1: every file whose write_file_to_zip call failed has a warning logged
\* for its path, and the finished archive has no entry under its relative
\* path.
C1_FailedFileOmitted ==
    \A r \in result : r.step # "ok" =>
        /\ \E i \in 1..Len(log) : log[i].level = "warn" /\ log[i].path = root_dir \o r.path
        /\ \A a \in archive : r.path \notin Names(a)

\* C2: every file written successfully is stored under its relative path
\* with exactly its own bytes, all of them.
C2_RoundTrip ==
    \A a \in archive : \A r \in result : r.step = "ok" =>
        \E i \in 1..Len(a), e \in fs :
            /\ e.path = r.path
            /\ a[i].name = r.path
            /\ a[i].src = e.path
            /\ a[i].len = e.size

\* C3: no archive entry has `target` as the first component of its path,
\* and a file below a directory whose name only begins with `target` is
\* not left out for that reason (it is handed to write_file_to_zip).
C3_TargetExcluded ==
    /\ \A n \in Names(zip) : ~(Len(n) >= 1 /\ n[1] = c_target)
    /\ \A a \in archive : \A n \in Names(a) : ~(Len(n) >= 1 /\ n[1] = c_target)
    /\ WalkOver =>
          \A e \in fs : e.path = <<c_targets, c_x_rs>> => e.path \in Handed

\* A file below `target` with an allowed extension was traversed and the
\* archive, with another file in it, is finished.
C3_Witness ==
    /\ \E e \in fs : e.path = <<c_target, c_out_rs>>
    /\ <<c_target>> \in visited
    /\ \E a \in archive : <<c_Cargo_toml>> \in Names(a)

\* C4: every archive entry is a regular file below the root whose extension
\* is, case-sensitively, one of toml, lock, rs, md, txt; a tree without any
\* such file gives an archive without entries that can be finalized, and a
\* reported count of 0.
C4_OnlyAllowedFiles ==
    /\ \A n \in Names(zip) :
          /\ Len(n) >= 1
          /\ \E e \in fs : e.path = n /\ e.kind = "file"
          /\ \E ext \in extension(n) : ext \in AllowedExt
    /\ (~ \E e \in fs : e.kind = "file" /\ \E ext \in extension(e.path) : ext \in AllowedExt) =>
          /\ zip = <<>>
          /\ file_count = 0
          /\ LoopDone => ENABLED FinishOk
          /\ \A a \in archive :
                /\ a = <<>>
                /\ \E i \in 1..Len(log) : log[i].level = "info" /\ log[i].msg = "Compressed files" /\ log[i].num = 0

\* A tree whose files all have other extensions (or none) was archived.
C4_Witness ==
    /\ archive = {<<>>}
    /\ \E e \in fs : e.path = <<c_README_MD>>
    /\ \E e \in fs : e.path = <<c_dot_txt>>
    /\ \E e \in fs : e.path = <<c_docs_md>>

\* C5: a file larger than 1 MiB is never in the archive, whatever its
\* extension; a file of exactly 1 MiB with an allowed extension is not left
\* out for its size (it is handed to write_file_to_zip).
C5_BigFilesExcluded ==
    /\ \A e \in fs : (e.kind = "file" /\ e.size > 1024 * 1024) =>
          /\ e.path \notin Names(zip)
          /\ \A a \in archive : e.path \notin Names(a)
    /\ WalkOver =>
          \A e \in fs : (e.path = <<c_src, c_main_rs>> /\ e.size = 1024 * 1024) => e.path \in Handed

\* A file over 1 MiB with an allowed extension was passed by and the
\* archive, with another file in it, is finished.
C5_Witness ==
    /\ \E e \in fs : e.path = <<c_src, c_main_rs>> /\ e.size = 1024 * 1024 + 1
    /\ \E a \in archive : <<c_Cargo_toml>> \in Names(a)

\* C6 as stated: after any status other than 200 OK an error line with the
\* status is logged, nothing is parsed or opened, and main returns Ok.
C6_RejectedExitsZero ==
    RejectionHandled =>
        /\ ErrorLineWithStatus
        /\ opened = <<>>
        /\ client # "Success"
        /\ fatal # "deserializing response"
        /\ exit_code = 0

\* C6 as amended: after any status other than 200 OK an error line with the
\* status is logged and nothing is parsed or opened; main returns Ok unless
\* debug logging is enabled and the response body cannot be read, and then
\* it returns that error.
C6_RejectedExitsZeroUnlessBodyUnreadable ==
    RejectionHandled =>
        /\ ErrorLineWithStatus
        /\ opened = <<>>
        /\ client # "Success"
        /\ fatal # "deserializing response"
        /\ IF debug_log /\ ~res.body.readable
           THEN exit_code = 1 /\ fatal = "getting content of HTTP response"
           ELSE exit_code = 0 /\ fatal = ""

\* A 403 was handled and main returned Ok.
C6_Witness ==
    /\ pc = "exit" /\ res.status = 403 /\ exit_code = 0
    /\ res.body = GoodBody42

\* C7: the client only moves Idle -> Sent -> Success | Rejected; a request
\* is sent only from Idle and at most one is ever sent; Success needs a
\* 200 OK response with a well-formed body; a handled non-OK response ends
\* in Rejected.
C7_ClientStateMachine ==
    [][ /\ client' # client =>
              <<client, client'>> \in { <<"Idle", "Sent">>, <<"Sent", "Success">>, <<"Sent", "Rejected">> }
        /\ Len(requests') > Len(requests) => (client = "Idle" /\ requests = <<>>)
        /\ Len(requests') <= 1
        /\ client' = "Success" => (res'.status = 200 /\ WellFormed(res'.body))
        /\ (pc' = "exit" /\ res'.status \notin {0, 200}) => client' = "Rejected"
      ]_vars

\* One request was sent and the run ended in Success.
C7_Witness ==
    /\ pc = "exit" /\ client = "Success" /\ Len(requests) = 1

\* C8: every request sent carries the finalized archive, sent after the
\* count was reported; a run that failed to locate the workspace or to
\* finalize the archive ends with an error and without any request.
C8_SendAfterFinalize ==
    /\ \A i \in 1..Len(requests) :
          /\ requests[i].bytes \in archive
          /\ \E j \in 1..Len(log) : log[j].level = "info" /\ log[j].num = file_count
    /\ fatal \in {"getting cargo metadata", "cannot create ZIP archive"} =>
          /\ requests = <<>>
          /\ client = "Idle"
          /\ exit_code = 1
          /\ pc = "exit"

\* Finalizing an archive with an entry failed and the run ended.
C8_Witness ==
    /\ fatal = "cannot create ZIP archive"
    /\ zip # <<>>
    /\ pc = "exit"

\* C9: open::that is called at most once, only after a 200 OK response with
\* a well-formed body, only with no_open off, and with the response's
\* submit.url; if it fails main returns an error although the client is in
\* Success; with no_open on it is never called and an accepted submission
\* makes main return Ok.
C9_BrowserOpen ==
    /\ Len(opened) <= 1
    /\ opened # <<>> =>
          /\ res.status = 200
          /\ WellFormed(res.body)
          /\ ~no_open
          /\ opened[1] = res.body.url.s
    /\ fatal = "opening browser" =>
          /\ exit_code = 1
          /\ opened # <<>>
          /\ client = "Success"
    /\ no_open => opened = <<>>
    /\ (no_open /\ client = "Success" /\ pc = "exit") => exit_code = 0

\* The browser was asked to open the second URL and failed to.
C9_Witness ==
    /\ fatal = "opening browser"
    /\ opened = <<Url7>>

\* C10: the count in the final log line is the number of entries of the
\* finalized archive, and the singular is used exactly for a count of 1.
C10_CountMatchesEntries ==
    \A a \in archive :
        /\ file_count = Len(a)
        /\ \E i \in 1..Len(log) :
              /\ log[i].level = "info"
              /\ log[i].num = Len(a)
              /\ log[i].msg = (IF Len(a) = 1 THEN "Compressed file" ELSE "Compressed files")
====
